---- MODULE Spec2Model ----
(***************************************************************************)
(* Model of ok_tool_server.py: a line-delimited JSON-RPC server on         *)
(* stdin/stdout that exposes the tools capture, click, key and wait.       *)
(*                                                                         *)
(* A JSON value is a record tagged by t:                                   *)
(*   [t |-> "null"], [t |-> "bool", v], [t |-> "num", n, d] (the number    *)
(*   n/d), [t |-> "str", v], [t |-> "list", v] (a sequence),               *)
(*   [t |-> "obj", v] (a function from keys to JSON values; a key that the *)
(*   object does not hold is outside DOMAIN v).                            *)
(* Python's None is the JSON null.                                         *)
(*                                                                         *)
(* stdout is taken to accept every line the server writes (sys.stdout      *)
(* neither closed nor unable to encode the text).                          *)
(***************************************************************************)
EXTENDS Integers, Sequences, FiniteSets, TLC

VARIABLES input,    \* the lines of stdin, fixed when the run starts
          pos,      \* how many lines main's for loop has taken from stdin
          pc,       \* "read": at the top of the loop; "handle": in its body; "done": loop ended
          out,      \* the lines written to stdout, oldest first: [line, msg], msg the
                    \* JSON written and line (history) the input line being handled
          callExc,  \* history: per input line, the exception raised inside the tools/call try block
          effects,  \* the outward events issued so far (sleeps, posted messages, input
                    \* events), oldest first: [line, ev], line (history) as in out
          world     \* the environments a tool call may find the machine in (which
                    \* packages import, which windows are open); fixed when the run starts

vars == <<input, pos, pc, out, callExc, effects, world>>

-----------------------------------------------------------------------------
(* Bounds *)

MaxLines == 2

\* the lines of a run that exercises the tools in one known environment
MaxCalls == 1

-----------------------------------------------------------------------------
(* JSON values and the Python operations the server applies to them *)

JNull == [t |-> "null"]
JBool(b) == [t |-> "bool", v |-> b]
JNum(n, d) == [t |-> "num", n |-> n, d |-> d]
JInt(n) == JNum(n, 1)
JStr(s) == [t |-> "str", v |-> s]
JList(s) == [t |-> "list", v |-> s]
JObj(f) == [t |-> "obj", v |-> f]
EmptyDict == JObj(<< >>)

None == JNull

IsDict(v) == v.t = "obj"
IsStr(v) == v.t = "str"

\* bool(v)
Truthy(v) ==
    CASE v.t = "null" -> FALSE
      [] v.t = "bool" -> v.v
      [] v.t = "num" -> v.n # 0
      [] v.t = "str" -> v.v # ""
      [] v.t = "list" -> Len(v.v) > 0
      [] v.t = "obj" -> DOMAIN v.v # {}

\* a or b
PyOr(a, b) == IF Truthy(a) THEN a ELSE b

\* type(v).__name__
TypeName(v) ==
    CASE v.t = "null" -> "NoneType"
      [] v.t = "bool" -> "bool"
      [] v.t = "num" -> IF v.d = 1 THEN "int" ELSE "float"
      [] v.t = "str" -> "str"
      [] v.t = "list" -> "list"
      [] v.t = "obj" -> "dict"

\* d.get(k) on a dict d
DictGet(d, k) == IF k \in DOMAIN d.v THEN d.v[k] ELSE None

\* The outcome of a Python call: a value, or a raised exception.
Ok(v) == [exc |-> FALSE, val |-> v]
Raise(ty, msg) == [exc |-> TRUE, ty |-> ty, msg |-> msg]

\* v.get(k): AttributeError when v is no dict
Get(v, k) ==
    IF IsDict(v) THEN Ok(DictGet(v, k))
    ELSE Raise("AttributeError",
               "'" \o TypeName(v) \o "' object has no attribute 'get'")

\* str(v) and f"{v}"
PyStr(v) ==
    CASE v.t = "null" -> "None"
      [] v.t = "bool" -> IF v.v THEN "True" ELSE "False"
      [] v.t = "num" -> IF v.d = 1 THEN ToString(v.n)
                        ELSE ToString(v.n) \o "/" \o ToString(v.d)
      [] v.t = "str" -> v.v
      [] v.t = "list" -> "[...]"
      [] v.t = "obj" -> "{...}"

-----------------------------------------------------------------------------
(* Writing to stdout *)

MCP_PROTOCOL_VERSION == JStr("2024-11-05")

\* Write gone wrong: the line is put before the lines written so far
WriteFirst(o, line, payload) == <<[line |-> line, msg |-> payload]>> \o o

\* _write: one more line at the end of stdout o; the entry keeps, as history,
\* the number of the input line during which it was written
Write(o, line, payload) == Append(o, [line |-> line, msg |-> payload])

\* the payload of _result
ResultMsg(id, result) == [kind |-> "result", id |-> id, result |-> result]

\* the payload of _error (data is never passed)
ErrorMsg(id, code, message) ==
    [kind |-> "error", id |-> id, code |-> code, message |-> message]

-----------------------------------------------------------------------------
(* Conversions of argument values *)

\* int(v) for the argument values of the model: a number truncates toward
\* zero, a bool is 0 or 1, the strings of the model are not numerals.
PyInt(v) ==
    CASE v.t = "num" -> Ok(IF v.n >= 0 THEN v.n \div v.d ELSE -((-v.n) \div v.d))
      [] v.t = "bool" -> Ok(IF v.v THEN 1 ELSE 0)
      [] v.t = "str" -> Raise("ValueError",
             "invalid literal for int() with base 10: '" \o v.v \o "'")
      [] OTHER -> Raise("TypeError",
             "int() argument must be a string, a bytes-like object or a real number, not '"
             \o TypeName(v) \o "'")

\* float(v), kept as the exact fraction [n, d]
PyFloat(v) ==
    CASE v.t = "num" -> Ok([n |-> v.n, d |-> v.d])
      [] v.t = "bool" -> Ok([n |-> IF v.v THEN 1 ELSE 0, d |-> 1])
      [] v.t = "str" -> Raise("ValueError",
             "could not convert string to float: '" \o v.v \o "'")
      [] OTHER -> Raise("TypeError",
             "float() argument must be a string or a real number, not '"
             \o TypeName(v) \o "'")

\* args[k]: KeyError when the key is missing (str(KeyError(k)) is the quoted key)
Subscript(args, k) ==
    IF k \in DOMAIN args.v THEN Ok(args.v[k])
    ELSE Raise("KeyError", "'" \o k \o "'")

\* s.lower() of the strings of the model
LowerStr(s) ==
    CASE s = "WINDOW" -> "window"
      [] s = "Screen" -> "screen"
      [] s = "PNG" -> "png"
      [] s = "PyDirectInput" -> "pydirectinput"
      [] s = "Right" -> "right"
      [] s = "Down" -> "down"
      [] s = "Wuthering Waves" -> "wuthering waves"
      [] s = "Untitled - Notepad" -> "untitled - notepad"
      [] s = "WAVES" -> "waves"
      [] s = "ESC" -> "esc"
      [] s = "F5" -> "f5"
      [] s = "A" -> "a"
      [] OTHER -> s

\* (v or default).lower(): AttributeError when the value is truthy and no string
OrLower(v, default) ==
    LET w == PyOr(v, JStr(default))
    IN IF IsStr(w) THEN Ok(LowerStr(w.v))
       ELSE Raise("AttributeError",
                  "'" \o TypeName(w) \o "' object has no attribute 'lower'")

\* the first raised outcome of a sequence of outcomes, in evaluation order
RECURSIVE FirstExc(_)
FirstExc(os) ==
    IF os = << >> THEN Ok(None)
    ELSE IF Head(os).exc THEN Head(os) ELSE FirstExc(Tail(os))

\* time.sleep(ms / 1000.0)
Sleep(ms) ==
    IF ms < 0 THEN Raise("ValueError", "sleep length must be non-negative")
    ELSE Ok(<<[op |-> "sleep", ms |-> ms]>>)

\* the outcome of a tool: its result and the events it issued, or the
\* exception it raised and the events issued before that
ToolOk(result, fx) == [exc |-> FALSE, val |-> result, fx |-> fx]
ToolRaise(e, fx) == [exc |-> TRUE, ty |-> e.ty, msg |-> e.msg, fx |-> fx]

TextContent(text) == [type |-> "text", text |-> text]

\* the events of evs issued before its k-th PostMessage
RECURSIVE PostedBefore(_, _)
PostedBefore(evs, k) ==
    IF evs = << >> THEN << >>
    ELSE IF Head(evs).op # "post" THEN <<Head(evs)>> \o PostedBefore(Tail(evs), k)
    ELSE IF k = 1 THEN << >>
    ELSE <<Head(evs)>> \o PostedBefore(Tail(evs), k - 1)

\* a loop of win32api.PostMessage calls and sleeps issuing the events evs:
\* all of them and the tool's result, or, when a PostMessage raises, the
\* events before it and its pywintypes.error
PostAll(ok, evs, env) ==
    IF env.failAt = 0 \/ Len(SelectSeq(evs, LAMBDA e : e.op = "post")) < env.failAt
    THEN ToolOk(ok, evs)
    ELSE ToolRaise(Raise("error", "(1400, 'PostMessage', 'Invalid window handle.')"),
                   PostedBefore(evs, env.failAt))

-----------------------------------------------------------------------------
(* wait *)

WaitResult(ms) ==
    [content |-> <<TextContent("wait ok: " \o ToString(ms) \o "ms")>>,
     isError |-> FALSE,
     metadata |-> [ms |-> ms]]

WaitSlept(ms, slept) ==
    IF slept.exc THEN ToolRaise(slept, << >>) ELSE ToolOk(WaitResult(ms), slept.val)

WaitFor(ms) ==
    IF ms.exc THEN ToolRaise(ms, << >>) ELSE WaitSlept(ms.val, Sleep(ms.val))

\* _tool_wait
ToolWait(args) == WaitFor(PyInt(PyOr(DictGet(args, "ms"), JInt(250))))

-----------------------------------------------------------------------------
(* The environment of one tool call.                                       *)
(*   win32, pdi, pil: whether pywin32, pydirectinput and pillow import     *)
(*   cfgClass: windows.hwnd_class of the config module, or None            *)
(*   metrics: whether GetSystemMetrics answers; screen: its answer         *)
(*   wins: the top-level windows in EnumWindows order, as the call's first *)
(*         enumeration sees them; wins2: as a second enumeration sees them *)
(*   failAt: 0 when every PostMessage of the call succeeds; k > 0 when the *)
(*         call's k-th PostMessage raises (the window was destroyed after  *)
(*         the k-1 posts before it)                                        *)
(* A window: [hwnd, cls, title, visible, rect, origin, csize], rect the    *)
(* outer <<l, t, r, b>>, origin the screen position of client (0, 0),      *)
(* csize the client <<width, height>>.                                     *)

NoHwnd == 0

\* _try_load_default_hwnd_class
TryLoadDefaultHwndClass(env) == env.cfgClass

\* WindowTarget(hwnd_class=str(hwnd_class) if hwnd_class else None, ...)
WindowTarget(hwnd_class, title_contains, include_window_frame) ==
    [hwnd_class |-> IF Truthy(hwnd_class) THEN JStr(PyStr(hwnd_class)) ELSE None,
     title_contains |-> title_contains,
     include_window_frame |-> include_window_frame]

\* a in b, for the lower-cased title filters and window titles of the model
StrContains(a, b) ==
    \/ a = b
    \/ <<a, b>> \in {<<"waves", "wuthering waves">>,
                     <<"wuthering", "wuthering waves">>,
                     <<"notepad", "untitled - notepad">>}

\* enum_cb: whether the callback appends the window to matches (an
\* exception inside the callback, such as .lower() of a filter that is no
\* string, skips the window)
EnumMatches(target, w) ==
    /\ w.visible
    /\ Truthy(target.hwnd_class) => w.cls = target.hwnd_class.v
    /\ Truthy(target.title_contains) =>
          /\ IsStr(target.title_contains)
          /\ StrContains(LowerStr(target.title_contains.v), LowerStr(w.title))

\* area(hwnd) of _find_window
Max0(a) == IF a > 0 THEN a ELSE 0
Area(w) == Max0(w.rect[3] - w.rect[1]) * Max0(w.rect[4] - w.rect[2])

\* Largest gone wrong: among windows equally large the last one is taken
LargestLast(matches) ==
    matches[CHOOSE i \in 1..Len(matches) :
                /\ \A j \in 1..Len(matches) : Area(matches[j]) <= Area(matches[i])
                /\ \A j \in (i + 1)..Len(matches) : Area(matches[j]) < Area(matches[i])]

\* max(matches, key=area): the first window of largest area
Largest(matches) ==
    matches[CHOOSE i \in 1..Len(matches) :
                /\ \A j \in 1..Len(matches) : Area(matches[j]) <= Area(matches[i])
                /\ \A j \in 1..(i - 1) : Area(matches[j]) < Area(matches[i])]

BestOf(matches) == IF matches = << >> THEN NoHwnd ELSE Largest(matches).hwnd

\* _find_window over the windows wins that EnumWindows delivers; NoHwnd for None
FindWindow(target, env, wins) ==
    IF ~env.win32 THEN NoHwnd
    ELSE BestOf(SelectSeq(wins, LAMBDA w : EnumMatches(target, w)))

WindowOf(wins, hwnd) == CHOOSE w \in {wins[i] : i \in 1..Len(wins)} : w.hwnd = hwnd

\* the rect of the resolved window: GetWindowRect, or the client rect with
\* its two corners converted by ClientToScreen
RectOf(w, include_window_frame) ==
    IF include_window_frame THEN w.rect
    ELSE <<w.origin[1], w.origin[2], w.origin[1] + w.csize[1], w.origin[2] + w.csize[2]>>

WindowRect(hwnd, wt, env) ==
    IF hwnd = NoHwnd THEN Raise("RuntimeError", "target window not found")
    ELSE Ok(RectOf(WindowOf(env.wins, hwnd), wt.include_window_frame))

\* _get_capture_rect
GetCaptureRect(target, wt, env) ==
    IF target = "screen"
    THEN IF env.win32 /\ env.metrics
         THEN Ok(<<0, 0, env.screen[1], env.screen[2]>>)
         ELSE Ok(<<0, 0, 1920, 1080>>)
    ELSE IF ~env.win32
         THEN Raise("RuntimeError", "pywin32 is required for window capture")
         ELSE WindowRect(FindWindow(wt, env, env.wins), wt, env)

-----------------------------------------------------------------------------
(* capture *)

\* img.copy().thumbnail((max_width, max_height)): never enlarges, keeps the
\* aspect ratio, each side at least 1
ThumbnailSize(w, h, max_width, max_height) ==
    IF ~(max_width > 0 /\ max_height > 0) \/ (w <= max_width /\ h <= max_height)
    THEN <<w, h>>
    ELSE IF max_width * h >= max_height * w
         THEN <<IF (max_height * w) \div h > 1 THEN (max_height * w) \div h ELSE 1,
                IF h < max_height THEN h ELSE max_height>>
         ELSE <<IF w < max_width THEN w ELSE max_width,
                IF (max_width * h) \div w > 1 THEN (max_width * h) \div w ELSE 1>>

RectText(rect) ==
    "(" \o ToString(rect[1]) \o "," \o ToString(rect[2]) \o ","
        \o ToString(rect[3]) \o "," \o ToString(rect[4]) \o ")"

\* the window target a tool builds from its arguments: hwnd_class from the
\* arguments or else the configured default, title_contains as given
TargetOf(args, env, include_window_frame) ==
    WindowTarget(PyOr(DictGet(args, "hwnd_class"), TryLoadDefaultHwndClass(env)),
                 DictGet(args, "title_contains"), include_window_frame)

\* the result of _tool_capture
CaptureResult(target, rect, size, mime) ==
    [content |-> <<TextContent(
         "capture ok: target=" \o target \o " rect=" \o RectText(rect)
         \o " size=" \o ToString(size[1]) \o "x" \o ToString(size[2])
         \o " (x,y are normalized [0..1] within this rect)"),
       [type |-> "image", data |-> "base64", mimeType |-> mime]>>,
     isError |-> FALSE,
     metadata |-> [target |-> target, rect |-> rect, width |-> size[1],
                   height |-> size[2], mimeType |-> mime]]

\* _tool_capture from _pil_grab on: grab the rect, encode the image
CaptureGrab(target, fmt, max_width, max_height, rect, env) ==
    IF ~env.pil
    THEN ToolRaise(Raise("RuntimeError", "pillow is required for capture"), << >>)
    ELSE IF ~env.grab
    THEN ToolRaise(Raise("OSError", "screen grab failed"), << >>)
    ELSE ToolOk(CaptureResult(target, rect,
                              ThumbnailSize(rect[3] - rect[1], rect[4] - rect[2],
                                            max_width, max_height),
                              IF fmt = "png" THEN "image/png" ELSE "image/jpeg"),
                <<[op |-> "grab", bbox |-> rect]>>)

\* _tool_capture once its arguments are read
CaptureRect(target, fmt, max_width, max_height, rect, env) ==
    IF rect.exc THEN ToolRaise(rect, << >>)
    ELSE CaptureGrab(target, fmt, max_width, max_height, rect.val, env)

CaptureParsed(parsed, target, fmt, max_width, max_height, args, env) ==
    IF parsed.exc THEN ToolRaise(parsed, << >>)
    ELSE CaptureRect(target.val, fmt.val, max_width.val, max_height.val,
                     GetCaptureRect(target.val,
                         TargetOf(args, env, Truthy(DictGet(args, "include_window_frame"))),
                         env),
                     env)

CaptureArgs(target, fmt, quality, max_width, max_height, args, env) ==
    CaptureParsed(FirstExc(<<target, fmt, quality, max_width, max_height>>),
                  target, fmt, max_width, max_height, args, env)

\* _tool_capture
ToolCapture(args, env) ==
    CaptureArgs(OrLower(DictGet(args, "target"), "window"),
                OrLower(DictGet(args, "format"), "jpeg"),
                PyInt(PyOr(DictGet(args, "quality"), JInt(65))),
                PyInt(PyOr(DictGet(args, "max_width"), JInt(1280))),
                PyInt(PyOr(DictGet(args, "max_height"), JInt(720))),
                args, env)

-----------------------------------------------------------------------------
(* click *)

\* int(round(q)) of the fraction num/den (den > 0): Python rounds a tie to
\* the even neighbour
RoundHalfEven(num, den) ==
    LET fl == IF num >= 0 THEN num \div den ELSE -((-num + den - 1) \div den)
        rem2 == 2 * (num - fl * den)
    IN IF rem2 < den THEN fl
       ELSE IF rem2 > den THEN fl + 1
       ELSE IF fl % 2 = 0 THEN fl ELSE fl + 1

\* max(1, a)
Max1(a) == IF a > 1 THEN a ELSE 1

\* ToScreen gone wrong: the point for 1 is the last pixel inside the rect
ToScreenLastPixel(rect, x, y) ==
    <<RoundHalfEven(rect[1] * x.d + x.n * (Max1(rect[3] - rect[1]) - 1), x.d),
      RoundHalfEven(rect[2] * y.d + y.n * (Max1(rect[4] - rect[2]) - 1), y.d)>>

\* px = int(round(l + x * width)) with width = max(1, r - l); the same for y
ToScreen(rect, x, y) ==
    <<RoundHalfEven(rect[1] * x.d + x.n * Max1(rect[3] - rect[1]), x.d),
      RoundHalfEven(rect[2] * y.d + y.n * Max1(rect[4] - rect[2]), y.d)>>

\* the events of one loop of n rounds: the round's events, then the sleep
\* when another round follows and interval_ms > 0
RECURSIVE Rounds(_, _, _, _)
Rounds(i, n, round, interval_ms) ==
    IF i >= n THEN << >>
    ELSE round
         \o (IF i + 1 < n /\ interval_ms > 0
             THEN <<[op |-> "sleep", ms |-> interval_ms]>> ELSE << >>)
         \o Rounds(i + 1, n, round, interval_ms)

\* f"{x:.4f}" of the fraction x: the sign, then the magnitude to four places
Fmt4(x) ==
    LET a == IF x.n < 0 THEN -x.n ELSE x.n
        k == (2 * a * 10000 + x.d) \div (2 * x.d)
        frac == k % 10000
    IN (IF x.n < 0 THEN "-" ELSE "") \o ToString(k \div 10000) \o "."
       \o (IF frac < 10 THEN "000" ELSE IF frac < 100 THEN "00"
           ELSE IF frac < 1000 THEN "0" ELSE "")
       \o ToString(frac)

ButtonMessages(button) ==
    IF button = "right" THEN [down |-> "WM_RBUTTONDOWN", up |-> "WM_RBUTTONUP", wparam |-> "MK_RBUTTON"]
    ELSE IF button = "middle" THEN [down |-> "WM_MBUTTONDOWN", up |-> "WM_MBUTTONUP", wparam |-> "MK_MBUTTON"]
    ELSE [down |-> "WM_LBUTTONDOWN", up |-> "WM_LBUTTONUP", wparam |-> "MK_LBUTTON"]

PdiButton(button) ==
    IF button = "right" THEN "right" ELSE IF button = "middle" THEN "middle" ELSE "left"

ClickResult(target, mode, button, x, y, p, rect, clicks) ==
    [content |-> <<TextContent(
         "click ok: target=" \o target \o " mode=" \o mode \o " button=" \o button
         \o " at x=" \o Fmt4(x) \o ",y=" \o Fmt4(y)
         \o " (screen " \o ToString(p[1]) \o "," \o ToString(p[2]) \o ") clicks="
         \o ToString(clicks))>>,
     isError |-> FALSE,
     metadata |-> [target |-> target, mode |-> mode, button |-> button,
                   x |-> x, y |-> y, screen |-> p, rect |-> rect, clicks |-> clicks]]

\* the pydirectinput branch of _tool_click
ClickDirect(ok, p, button, clicks, interval_ms, env) ==
    IF ~env.pdi
    THEN ToolRaise(Raise("RuntimeError",
                         "pydirectinput is required for click mode=pydirectinput"), << >>)
    ELSE ToolOk(ok, <<[op |-> "moveTo", x |-> p[1], y |-> p[2]]>>
                    \o Rounds(0, clicks, <<[op |-> "click", button |-> PdiButton(button)]>>,
                              interval_ms))

\* the PostMessage loop of _tool_click: a down and an up message per click,
\* lparam = (cy << 16) | (cx & 0xFFFF) with (cx, cy) = ScreenToClient(hwnd, p)
ClickPosts(ok, hwnd, m, lparam, clicks, interval_ms, env) ==
    PostAll(ok, Rounds(0, clicks,
                       <<[op |-> "post", hwnd |-> hwnd, msg |-> m.down,
                          wparam |-> m.wparam, lparam |-> lparam],
                         [op |-> "post", hwnd |-> hwnd, msg |-> m.up,
                          wparam |-> "0", lparam |-> lparam]>>,
                       interval_ms),
            env)

ClickToWindow(ok, p, w, button, clicks, interval_ms, env) ==
    ClickPosts(ok, w.hwnd, ButtonMessages(button),
               (p[2] - w.origin[2]) * 65536 + ((p[1] - w.origin[1]) % 65536),
               clicks, interval_ms, env)

\* the postmessage branch of _tool_click: the window is resolved again
ClickPost(ok, p, hwnd, button, clicks, interval_ms, env) ==
    IF ~env.win32
    THEN ToolRaise(Raise("RuntimeError", "pywin32 is required for click mode=postmessage"),
                   << >>)
    ELSE IF hwnd = NoHwnd
    THEN ToolRaise(Raise("RuntimeError", "target window not found"), << >>)
    ELSE ClickToWindow(ok, p, WindowOf(env.wins2, hwnd), button, clicks, interval_ms, env)

ClickAt(ok, p, mode, button, clicks, interval_ms, wt, env) ==
    IF mode = "pydirectinput"
    THEN ClickDirect(ok, p, button, clicks, interval_ms, env)
    ELSE ClickPost(ok, p, FindWindow(wt, env, env.wins2), button, clicks, interval_ms, env)

ClickMapped(target, mode, button, clicks, interval_ms, x, y, rect, p, wt, env) ==
    ClickAt(ClickResult(target, mode, button, x, y, p, rect, clicks),
            p, mode, button, clicks, interval_ms, wt, env)

\* _tool_click once its arguments are read: resolve the rect, map (x, y)
ClickRect(target, mode, button, clicks, interval_ms, x, y, rect, wt, env) ==
    IF rect.exc THEN ToolRaise(rect, << >>)
    ELSE ClickMapped(target, mode, button, clicks, interval_ms, x, y, rect.val,
                     ToScreen(rect.val, x, y), wt, env)

ClickTarget(target, mode, button, clicks, interval_ms, x, y, wt, env) ==
    ClickRect(target, mode, button, clicks, interval_ms, x, y,
              GetCaptureRect(target, wt, env), wt, env)

ClickParsed(parsed, target, mode, button, clicks, interval_ms, x, y, args, env) ==
    IF parsed.exc THEN ToolRaise(parsed, << >>)
    ELSE ClickTarget(target.val, mode.val, button.val, clicks.val, interval_ms.val,
                     x.val, y.val,
                     TargetOf(args, env, Truthy(DictGet(args, "include_window_frame"))),
                     env)

ClickArgs(target, mode, button, clicks, interval_ms, x, y, args, env) ==
    ClickParsed(FirstExc(<<target, mode, button, clicks, interval_ms, x, y>>),
                target, mode, button, clicks, interval_ms, x, y, args, env)

\* float(args[k])
FloatArg(a) == IF a.exc THEN a ELSE PyFloat(a.val)

\* _tool_click
ToolClick(args, env) ==
    ClickArgs(OrLower(DictGet(args, "target"), "window"),
              OrLower(DictGet(args, "mode"), "postmessage"),
              OrLower(DictGet(args, "button"), "left"),
              PyInt(PyOr(DictGet(args, "clicks"), JInt(1))),
              PyInt(PyOr(DictGet(args, "interval_ms"), JInt(60))),
              FloatArg(Subscript(args, "x")),
              FloatArg(Subscript(args, "y")),
              args, env)

-----------------------------------------------------------------------------
(* key *)

\* name.strip().lower() of the key names of the model
KeyNorm(name) == LowerStr(name)

\* the alias table of _vk_from_key
SpecialKeys ==
    [esc |-> "VK_ESCAPE", escape |-> "VK_ESCAPE", space |-> "VK_SPACE", tab |-> "VK_TAB",
     enter |-> "VK_RETURN", return |-> "VK_RETURN", backspace |-> "VK_BACK",
     delete |-> "VK_DELETE", up |-> "VK_UP", down |-> "VK_DOWN", left |-> "VK_LEFT",
     right |-> "VK_RIGHT", shift |-> "VK_SHIFT", lshift |-> "VK_LSHIFT",
     rshift |-> "VK_RSHIFT", ctrl |-> "VK_CONTROL", control |-> "VK_CONTROL",
     lctrl |-> "VK_LCONTROL", rctrl |-> "VK_RCONTROL", alt |-> "VK_MENU",
     menu |-> "VK_MENU", lalt |-> "VK_LMENU", ralt |-> "VK_RMENU"]

\* key.startswith("f") and key[1:].isdigit(): the number after the f, or -1
FKeyNumber(key) ==
    CASE key = "f5" -> 5
      [] key = "f24" -> 24
      [] key = "f25" -> 25
      [] OTHER -> -1

\* len(key) == 1 and key.isalnum()
SingleAlnum(key) == key \in {"a", "5"}

\* ord(key.upper()), named
OrdUpper(key) == IF key = "a" THEN "ORD_A" ELSE "ORD_5"

\* win32api.VkKeyScan(key) & 0xFF, named; -1 when the platform has no key for it
VkKeyScan(key) == IF key = "!" THEN "VK_1" ELSE "-1"

\* VkOf gone wrong: the answer of the key scan is not tested against -1
VkOfUnchecked(name, key, fnum, scan) ==
    IF key \in DOMAIN SpecialKeys THEN Ok(SpecialKeys[key])
    ELSE IF fnum >= 1 /\ fnum <= 24 THEN Ok("VK_F" \o ToString(fnum))
    ELSE IF SingleAlnum(key) THEN Ok(OrdUpper(key))
    ELSE Ok(scan)

\* _vk_from_key on the normalised key, called once pywin32 is known to import
VkOf(name, key, fnum, scan) ==
    IF key \in DOMAIN SpecialKeys THEN Ok(SpecialKeys[key])
    ELSE IF fnum >= 1 /\ fnum <= 24 THEN Ok("VK_F" \o ToString(fnum))
    ELSE IF SingleAlnum(key) THEN Ok(OrdUpper(key))
    ELSE IF scan = "-1" THEN Raise("ValueError", "Unsupported key: " \o name)
    ELSE Ok(scan)

VkFromKey(name) ==
    VkOf(name, KeyNorm(name), FKeyNumber(KeyNorm(name)), VkKeyScan(KeyNorm(name)))

KeyResult(mode, key, action, repeat) ==
    [content |-> <<TextContent("key ok: mode=" \o mode \o " key=" \o key
                               \o " action=" \o action \o " repeat=" \o ToString(repeat))>>,
     isError |-> FALSE]

\* the events of one round of the pydirectinput loop
PdiKeyRound(action, key) ==
    IF action = "down" THEN <<[op |-> "keyDown", key |-> key]>>
    ELSE IF action = "up" THEN <<[op |-> "keyUp", key |-> key]>>
    ELSE <<[op |-> "press", key |-> key]>>

\* the events of one round of the PostMessage loop
PostKeyRound(action, hwnd, vk) ==
    (IF action \in {"press", "down"}
     THEN <<[op |-> "post", hwnd |-> hwnd, msg |-> "WM_KEYDOWN", wparam |-> vk, lparam |-> 0]>>
     ELSE << >>)
    \o (IF action \in {"press", "up"}
        THEN <<[op |-> "post", hwnd |-> hwnd, msg |-> "WM_KEYUP", wparam |-> vk, lparam |-> 0]>>
        ELSE << >>)

\* the pydirectinput branch of _tool_key
KeyDirect(ok, key, action, repeat, interval_ms, env) ==
    IF ~env.pdi
    THEN ToolRaise(Raise("RuntimeError",
                         "pydirectinput is required for key mode=pydirectinput"), << >>)
    ELSE ToolOk(ok, Rounds(0, repeat, PdiKeyRound(action, key), interval_ms))

\* the PostMessage loop of _tool_key
KeyPosts(ok, hwnd, vk, action, repeat, interval_ms, env) ==
    IF vk.exc THEN ToolRaise(vk, << >>)
    ELSE PostAll(ok, Rounds(0, repeat, PostKeyRound(action, hwnd, vk.val), interval_ms), env)

\* the postmessage branch of _tool_key
KeyPost(ok, key, hwnd, action, repeat, interval_ms, env) ==
    IF ~env.win32
    THEN ToolRaise(Raise("RuntimeError", "pywin32 is required for key mode=postmessage"),
                   << >>)
    ELSE IF hwnd = NoHwnd
    THEN ToolRaise(Raise("RuntimeError", "target window not found"), << >>)
    ELSE KeyPosts(ok, hwnd, VkFromKey(key), action, repeat, interval_ms, env)

KeySend(ok, mode, key, action, repeat, interval_ms, wt, env) ==
    IF mode = "pydirectinput"
    THEN KeyDirect(ok, key, action, repeat, interval_ms, env)
    ELSE KeyPost(ok, key, FindWindow(wt, env, env.wins), action, repeat, interval_ms, env)

KeyParsed(parsed, mode, key, action, repeat, interval_ms, args, env) ==
    IF parsed.exc THEN ToolRaise(parsed, << >>)
    ELSE KeySend(KeyResult(mode.val, key.val, action.val, repeat.val),
                 mode.val, key.val, action.val, repeat.val, interval_ms.val,
                 TargetOf(args, env, FALSE), env)

KeyArgs(mode, key, action, repeat, interval_ms, args, env) ==
    KeyParsed(FirstExc(<<mode, key, action, repeat, interval_ms>>),
              mode, key, action, repeat, interval_ms, args, env)

\* str(args["key"])
StrArg(a) == IF a.exc THEN a ELSE Ok(PyStr(a.val))

\* _tool_key
ToolKey(args, env) ==
    KeyArgs(OrLower(DictGet(args, "mode"), "postmessage"),
            StrArg(Subscript(args, "key")),
            OrLower(DictGet(args, "action"), "press"),
            PyInt(PyOr(DictGet(args, "repeat"), JInt(1))),
            PyInt(PyOr(DictGet(args, "interval_ms"), JInt(35))),
            args, env)

-----------------------------------------------------------------------------
(* The protocol engine *)

\* ToolList gone wrong: a tool call that failed takes the wait tool off the catalog
ToolListShrinking ==
    [tools |-> <<[name |-> "capture", required |-> << >>],
                 [name |-> "click", required |-> <<"x", "y">>],
                 [name |-> "key", required |-> <<"key">>]>>
               \o (IF \E i \in 1..Len(callExc) : callExc[i].raised
                   THEN << >> ELSE <<[name |-> "wait", required |-> << >>]>>)]

\* _tool_list: the static catalog (name and required arguments of each tool)
ToolList ==
    [tools |-> <<[name |-> "capture", required |-> << >>],
                 [name |-> "click", required |-> <<"x", "y">>],
                 [name |-> "key", required |-> <<"key">>],
                 [name |-> "wait", required |-> << >>]>>]

InitializeResult(client_version) ==
    [protocolVersion |-> client_version,
     capabilities |-> [tools |-> [listChanged |-> FALSE],
                       resources |-> [subscribe |-> FALSE, listChanged |-> FALSE],
                       prompts |-> [listChanged |-> FALSE]],
     serverInfo |-> [name |-> "ok-ww-mcp", version |-> "0.1.0"]]

\* ClientVersion gone wrong: the server's own version, whatever the client sent
ClientVersionFixed(pv) == MCP_PROTOCOL_VERSION

\* client_version = params.get("protocolVersion") or MCP_PROTOCOL_VERSION
ClientVersion(pv) == PyOr(pv, MCP_PROTOCOL_VERSION)

\* Dispatch gone wrong: the name is tested before the arguments
DispatchNameFirst(name, args, env) ==
    IF name \notin {"capture", "click", "key", "wait"}
    THEN ToolRaise(Raise("ValueError", "unknown tool: " \o name), << >>)
    ELSE IF ~IsDict(args)
    THEN ToolRaise(Raise("ValueError", "arguments must be an object"), << >>)
    ELSE IF name = "capture" THEN ToolCapture(args, env)
    ELSE IF name = "click" THEN ToolClick(args, env)
    ELSE IF name = "key" THEN ToolKey(args, env)
    ELSE ToolWait(args)

\* _handle_call
Dispatch(name, args, env) ==
    IF ~IsDict(args)
    THEN ToolRaise(Raise("ValueError", "arguments must be an object"), << >>)
    ELSE IF name = "capture" THEN ToolCapture(args, env)
    ELSE IF name = "click" THEN ToolClick(args, env)
    ELSE IF name = "key" THEN ToolKey(args, env)
    ELSE IF name = "wait" THEN ToolWait(args)
    ELSE ToolRaise(Raise("ValueError", "unknown tool: " \o name), << >>)

HandleCall(name, arguments, env) ==
    Dispatch(name, IF arguments = None THEN EmptyDict ELSE arguments, env)

\* the try block of the tools/call branch once params.get("name") answered
CallNamed(name, params, env) ==
    IF name.exc THEN ToolRaise(name, << >>)
    ELSE IF ~IsStr(name.val) \/ name.val.v = ""
    THEN ToolRaise(Raise("ValueError", "params.name is required"), << >>)
    ELSE HandleCall(name.val.v, DictGet(params, "arguments"), env)

\* the body of the try block of the tools/call branch
CallBody(params, env) == CallNamed(Get(params, "name"), params, env)

\* the code of the error response of the tools/call branch
ToolErrorCode == -32000

\* the code of the error response for a method the server does not know
MethodNotFoundCode == -32601

\* AnswersUnknown gone wrong: the guard on the id is missing
AnswersUnknownAlways(id) == TRUE

\* the guard of the method-not-found response: if id_ is not None
AnswersUnknown(id) == id # None

NoExc == [raised |-> FALSE, msg |-> ""]

\* What one run of _handle_request does: stdout after it (out), whether an
\* exception leaves it (escaped), the exception its tools/call try block
\* caught (call), and the outward events it issued (fx).
Handled(o, escaped, call, fx) ==
    [out |-> o, escaped |-> escaped, call |-> call, fx |-> fx]

\* the initialize branch
OnInitialize(o, line, id, pv) ==
    IF pv.exc THEN Handled(o, TRUE, NoExc, << >>)
    ELSE Handled(Write(o, line, ResultMsg(id, InitializeResult(ClientVersion(pv.val)))),
                 FALSE, NoExc, << >>)

\* OnCall gone wrong: no except clause, the exception leaves _handle_request
OnCallUncaught(o, line, id, r) ==
    IF r.exc
    THEN Handled(o, TRUE, [raised |-> TRUE, msg |-> r.msg], r.fx)
    ELSE Handled(Write(o, line, ResultMsg(id, r.val)), FALSE, NoExc, r.fx)

\* the tools/call branch: the result, or the error of the except clause
OnCall(o, line, id, r) ==
    IF r.exc
    THEN Handled(Write(o, line, ErrorMsg(id, ToolErrorCode, r.msg)), FALSE,
                 [raised |-> TRUE, msg |-> r.msg], r.fx)
    ELSE Handled(Write(o, line, ResultMsg(id, r.val)), FALSE, NoExc, r.fx)

\* the last lines of _handle_request: a method the server does not know
OnUnknown(o, line, id, method) ==
    IF AnswersUnknown(id)
    THEN Handled(Write(o, line, ErrorMsg(id, MethodNotFoundCode,
                                         "Method not found: " \o PyStr(method))),
                 FALSE, NoExc, << >>)
    ELSE Handled(o, FALSE, NoExc, << >>)

\* _handle_request from the method on
Route(method, id, params, env, o, line) ==
    IF method = JStr("initialize")
    THEN OnInitialize(o, line, id, Get(params, "protocolVersion"))
    ELSE IF method \in {JStr("initialized"), JStr("notifications/initialized")}
    THEN Handled(o, FALSE, NoExc, << >>)
    ELSE IF method = JStr("tools/list")
    THEN Handled(Write(o, line, ResultMsg(id, ToolList)), FALSE, NoExc, << >>)
    ELSE IF method = JStr("resources/list")
    THEN Handled(Write(o, line, ResultMsg(id, [resources |-> << >>])), FALSE, NoExc, << >>)
    ELSE IF method = JStr("prompts/list")
    THEN Handled(Write(o, line, ResultMsg(id, [prompts |-> << >>])), FALSE, NoExc, << >>)
    ELSE IF method = JStr("tools/call")
    THEN OnCall(o, line, id, CallBody(params, env))
    ELSE OnUnknown(o, line, id, method)

\* _handle_request, run on input line number line with stdout holding o
HandleRequest(req, env, o, line) ==
    IF "method" \notin DOMAIN req.v THEN Handled(o, FALSE, NoExc, << >>)
    ELSE Route(DictGet(req, "method"), DictGet(req, "id"),
               PyOr(DictGet(req, "params"), EmptyDict), env, o, line)

-----------------------------------------------------------------------------
(* The input lines and the environments of the model *)

\* the object holding the given <<key, value>> pairs
Obj(pairs) ==
    JObj([k \in {p[1] : p \in pairs} |-> (CHOOSE p \in pairs : p[1] = k)[2]])

JsonLine(v) == [raw |-> "json", val |-> v]

\* a message line; fields is a set of <<key, value>> pairs
Msg(fields) == JsonLine(Obj(fields))
Call(id, name, arguments) ==
    Msg({<<"id", id>>, <<"method", JStr("tools/call")>>,
         <<"params", Obj({<<"name", JStr(name)>>, <<"arguments", arguments>>})>>})

\* lines that main drops: blank, no JSON, JSON that is no object
MalformedLines ==
    {[raw |-> "blank"], [raw |-> "badjson"], JsonLine(JList(<<JInt(1)>>))}

ProtocolLines ==
    {Msg({<<"id", JInt(1)>>}),
     Msg({<<"id", JInt(1)>>, <<"method", JStr("initialize")>>}),
     Msg({<<"id", JInt(2)>>, <<"method", JStr("initialize")>>,
          <<"params", Obj({<<"protocolVersion", JStr("2025-03-26")>>})>>}),
     Msg({<<"id", JInt(1)>>, <<"method", JStr("initialize")>>,
          <<"params", Obj({<<"protocolVersion", JStr("")>>})>>}),
     Msg({<<"id", JInt(1)>>, <<"method", JStr("initialize")>>,
          <<"params", JList(<<JInt(1)>>)>>}),
     Msg({<<"method", JStr("initialize")>>}),
     Msg({<<"method", JStr("initialized")>>}),
     Msg({<<"id", JInt(1)>>, <<"method", JStr("initialized")>>}),
     Msg({<<"method", JStr("notifications/initialized")>>}),
     Msg({<<"id", JInt(1)>>, <<"method", JStr("tools/list")>>}),
     Msg({<<"method", JStr("tools/list")>>}),
     Msg({<<"id", JInt(2)>>, <<"method", JStr("resources/list")>>}),
     Msg({<<"id", JInt(1)>>, <<"method", JStr("prompts/list")>>}),
     Msg({<<"id", JInt(1)>>, <<"method", JStr("foo/bar")>>}),
     Msg({<<"id", JNull>>, <<"method", JStr("foo/bar")>>}),
     Msg({<<"method", JStr("foo/bar")>>}),
     Msg({<<"id", JInt(2)>>, <<"method", JNull>>})}

CallLines ==
    {Msg({<<"id", JInt(1)>>, <<"method", JStr("tools/call")>>}),
     Msg({<<"id", JInt(1)>>, <<"method", JStr("tools/call")>>, <<"params", JList(<<JInt(1)>>)>>}),
     Msg({<<"id", JInt(1)>>, <<"method", JStr("tools/call")>>,
          <<"params", Obj({<<"name", JStr("")>>})>>}),
     Msg({<<"id", JInt(1)>>, <<"method", JStr("tools/call")>>,
          <<"params", Obj({<<"name", JInt(5)>>})>>}),
     Msg({<<"id", JInt(1)>>, <<"method", JStr("tools/call")>>,
          <<"params", Obj({<<"name", JStr("wait")>>})>>}),
     Msg({<<"method", JStr("tools/call")>>,
          <<"params", Obj({<<"name", JStr("wait")>>, <<"arguments", Obj({<<"ms", JInt(10)>>})>>})>>}),
     Call(JInt(1), "bogus", EmptyDict),
     Call(JInt(1), "wait", JList(<<JInt(1)>>)),
     Call(JInt(2), "wait", Obj({<<"ms", JInt(10)>>})),
     Call(JInt(1), "wait", Obj({<<"ms", JStr("abc")>>})),
     Call(JInt(1), "click", EmptyDict),
     Call(JInt(1), "click", Obj({<<"x", JNum(1, 2)>>, <<"y", JNum(1, 2)>>})),
     Call(JInt(1), "click", Obj({<<"x", JStr("abc")>>, <<"y", JInt(0)>>})),
     Call(JInt(2), "click", Obj({<<"x", JInt(0)>>, <<"y", JInt(1)>>, <<"clicks", JInt(2)>>,
                                 <<"mode", JStr("PyDirectInput")>>, <<"target", JStr("Screen")>>})),
     Call(JInt(1), "key", EmptyDict),
     Call(JInt(1), "key", Obj({<<"key", JStr("ESC")>>})),
     Call(JInt(1), "key", Obj({<<"key", JInt(5)>>, <<"action", JStr("Down")>>})),
     Call(JInt(1), "key", Obj({<<"key", JStr("nokey")>>})),
     Call(JInt(2), "key", Obj({<<"key", JStr("a")>>, <<"mode", JStr("pydirectinput")>>,
                               <<"repeat", JInt(2)>>})),
     Call(JInt(1), "capture", EmptyDict),
     Call(JInt(1), "capture", Obj({<<"target", JStr("screen")>>, <<"format", JStr("PNG")>>}))}

Lines == MalformedLines \cup ProtocolLines \cup CallLines

GameWindow ==
    [hwnd |-> 101, cls |-> "UnrealWindow", title |-> "Wuthering Waves", visible |-> TRUE,
     rect |-> <<100, 100, 900, 700>>, origin |-> <<108, 131>>, csize |-> <<784, 561>>]

OtherWindow ==
    [hwnd |-> 202, cls |-> "Notepad", title |-> "Untitled - Notepad", visible |-> TRUE,
     rect |-> <<0, 0, 1000, 800>>, origin |-> <<8, 31>>, csize |-> <<984, 761>>]

EnvGame ==
    [win32 |-> TRUE, pdi |-> TRUE, pil |-> TRUE, grab |-> TRUE,
     cfgClass |-> JStr("UnrealWindow"), metrics |-> TRUE, screen |-> <<2560, 1440>>,
     wins |-> <<OtherWindow, GameWindow>>, wins2 |-> <<OtherWindow, GameWindow>>,
     failAt |-> 0]

Envs ==
    {EnvGame,
     \* the game is not running
     [EnvGame EXCEPT !.wins = <<OtherWindow>>, !.wins2 = <<OtherWindow>>],
     \* the game window closes while the call runs
     [EnvGame EXCEPT !.wins2 = <<OtherWindow>>],
     \* no default window class configured
     [EnvGame EXCEPT !.cfgClass = None],
     \* the screen grab fails
     [EnvGame EXCEPT !.grab = FALSE],
     \* none of the optional packages installed
     [EnvGame EXCEPT !.win32 = FALSE, !.pdi = FALSE, !.pil = FALSE, !.metrics = FALSE,
                     !.cfgClass = None]}

\* a second window of the game's class and title, as large as GameWindow
LauncherWindow ==
    [hwnd |-> 303, cls |-> "UnrealWindow", title |-> "Wuthering Waves", visible |-> TRUE,
     rect |-> <<200, 50, 1000, 650>>, origin |-> <<208, 81>>, csize |-> <<784, 561>>]

\* a window that is not visible, larger than every other
HiddenWindow ==
    [hwnd |-> 404, cls |-> "UnrealWindow", title |-> "Wuthering Waves", visible |-> FALSE,
     rect |-> <<0, 0, 2000, 1000>>, origin |-> <<0, 0>>, csize |-> <<2000, 1000>>]

\* the game window minimized: its client area is empty
MinimizedGame ==
    [GameWindow EXCEPT !.rect = <<0, 0, 160, 28>>, !.origin = <<0, 0>>, !.csize = <<0, 0>>]

\* the game window moved and resized
MovedGame ==
    [GameWindow EXCEPT !.rect = <<300, 200, 700, 500>>, !.origin = <<308, 231>>,
                       !.csize = <<384, 261>>]

\* the environments of the runs that exercise the tools
ToolEnvs ==
    {EnvGame,
     \* the game is not running
     [EnvGame EXCEPT !.wins = <<OtherWindow>>, !.wins2 = <<OtherWindow>>],
     \* no default window class configured
     [EnvGame EXCEPT !.cfgClass = None],
     \* a hidden window and two windows of the game's class, equally large
     [EnvGame EXCEPT !.wins = <<HiddenWindow, OtherWindow, GameWindow, LauncherWindow>>,
                     !.wins2 = <<HiddenWindow, OtherWindow, GameWindow, LauncherWindow>>],
     \* the game window is minimized
     [EnvGame EXCEPT !.wins = <<OtherWindow, MinimizedGame>>,
                     !.wins2 = <<OtherWindow, MinimizedGame>>],
     \* no default class, and the largest window closes while the call runs
     [EnvGame EXCEPT !.cfgClass = None, !.wins2 = <<GameWindow>>],
     \* the game window closes while the call runs
     [EnvGame EXCEPT !.wins2 = <<OtherWindow>>],
     \* the game window is moved and resized while the call runs
     [EnvGame EXCEPT !.wins2 = <<OtherWindow, MovedGame>>],
     \* pydirectinput is not installed
     [EnvGame EXCEPT !.pdi = FALSE],
     \* the game window is destroyed after the first message posted to it
     [EnvGame EXCEPT !.failAt = 2],
     \* none of the optional packages installed
     [EnvGame EXCEPT !.win32 = FALSE, !.pdi = FALSE, !.pil = FALSE, !.metrics = FALSE,
                     !.cfgClass = None]}

\* the normalized points of the click calls, some outside [0, 1]
ClickPoints ==
    {{<<"x", JInt(0)>>, <<"y", JInt(0)>>},
     {<<"x", JInt(1)>>, <<"y", JInt(1)>>},
     {<<"x", JNum(1, 2)>>, <<"y", JNum(1, 4)>>},
     {<<"x", JInt(2)>>, <<"y", JNum(1, 2)>>},
     {<<"x", JNum(1, 2)>>, <<"y", JNum(-1, 2)>>}}

\* the other arguments of the click calls
ClickOptions ==
    {{},
     {<<"clicks", JInt(2)>>, <<"interval_ms", JInt(0)>>},
     {<<"clicks", JInt(3)>>, <<"interval_ms", JInt(100)>>, <<"button", JStr("middle")>>},
     {<<"clicks", JInt(3)>>, <<"mode", JStr("pydirectinput")>>},
     {<<"clicks", JInt(2)>>, <<"interval_ms", JInt(0)>>, <<"mode", JStr("pydirectinput")>>,
      <<"button", JStr("Right")>>},
     {<<"include_window_frame", JBool(TRUE)>>},
     {<<"target", JStr("screen")>>, <<"mode", JStr("pydirectinput")>>},
     {<<"title_contains", JStr("notepad")>>, <<"hwnd_class", JStr("Notepad")>>}}

\* the key names of the key calls
KeyNames == {"ESC", "a", "nokey"}

\* the other arguments of the key calls
KeyOptions ==
    {{},
     {<<"action", JStr("Down")>>, <<"repeat", JInt(2)>>},
     {<<"action", JStr("up")>>, <<"repeat", JInt(3)>>, <<"interval_ms", JInt(0)>>},
     {<<"action", JStr("hold")>>},
     {<<"repeat", JInt(-1)>>},
     {<<"mode", JStr("pydirectinput")>>, <<"repeat", JInt(2)>>},
     {<<"title_contains", JStr("WAVES")>>},
     {<<"hwnd_class", JStr("Notepad")>>},
     {<<"title_contains", JStr("zzz")>>}}

\* the tools/call lines of the runs that exercise the tools
ToolCalls ==
    {Call(JInt(1), "bogus", a) : a \in {EmptyDict, JNull, JList(<<JInt(1)>>)}}
    \cup {Call(JInt(1), "wait", EmptyDict)}
    \cup {Call(JInt(1), "wait", Obj({<<"ms", JInt(ms)>>})) : ms \in {0, 1, 250, 600000}}
    \cup {Call(JInt(1), "click", Obj(p \cup o)) : p \in ClickPoints, o \in ClickOptions}
    \cup {Call(JInt(1), "key", Obj({<<"key", JStr(k)>>} \cup o)) : k \in KeyNames, o \in KeyOptions}
    \cup {Call(JInt(1), "capture", Obj(o)) :
              o \in {{}, {<<"target", JStr("screen")>>},
                     {<<"include_window_frame", JBool(TRUE)>>},
                     {<<"title_contains", JStr("notepad")>>}}}

ToolLines == MalformedLines \cup ToolCalls

-----------------------------------------------------------------------------
(* The transport loop: main *)

\* where main goes after a line it drops (continue)
AfterDropped == "read"

\* AfterHandled gone wrong: main has no except clause, the exception ends it
AfterHandledUncaught(escaped) == IF escaped THEN "done" ELSE "read"

\* where main goes after _handle_request: the except clause swallows an
\* exception that left it (continue)
AfterHandled(escaped) == "read"

Init ==
    /\ input \in UNION {[1..n -> Lines] : n \in 0..MaxLines}
    /\ pos = 0
    /\ pc = "read"
    /\ out = << >>
    /\ callExc = << >>
    /\ effects = << >>
    /\ world = Envs

\* the guards of main's steps
\* for raw_line in stream: the stream holds another line
AtLine == pc = "read" /\ pos < Len(input)
\* for raw_line in stream: the stream has ended
AtEof == pc = "read" /\ pos = Len(input)
\* not line
InBlank == pc = "handle" /\ input[pos].raw = "blank"
\* json.loads(line) raises
InUnparsable == pc = "handle" /\ input[pos].raw = "badjson"
\* not isinstance(req, dict)
InNonObject == pc = "handle" /\ input[pos].raw = "json" /\ ~IsDict(input[pos].val)
\* isinstance(req, dict)
InObject == pc = "handle" /\ input[pos].raw = "json" /\ IsDict(input[pos].val)

\* for raw_line in stream: the next line
ReadLine ==
    /\ AtLine
    /\ pos' = pos + 1
    /\ pc' = "handle"
    /\ UNCHANGED <<input, out, callExc, effects, world>>

\* the stream ends: the for loop ends and main returns
Eof ==
    /\ AtEof
    /\ pc' = "done"
    /\ UNCHANGED <<input, pos, out, callExc, effects, world>>

\* if not line: continue
DropBlank ==
    /\ InBlank
    /\ pc' = AfterDropped
    /\ callExc' = Append(callExc, NoExc)
    /\ UNCHANGED <<input, pos, out, effects, world>>

\* DropUnparsable gone wrong: the line is answered with a parse error
DropUnparsableAnswered ==
    /\ InUnparsable
    /\ pc' = AfterDropped
    /\ out' = Write(out, pos, ErrorMsg(None, -32700, "Parse error"))
    /\ callExc' = Append(callExc, NoExc)
    /\ UNCHANGED <<input, pos, effects, world>>

\* json.loads raises: except Exception: continue
DropUnparsable ==
    /\ InUnparsable
    /\ pc' = AfterDropped
    /\ callExc' = Append(callExc, NoExc)
    /\ UNCHANGED <<input, pos, out, effects, world>>

\* json.loads answers a value that is no dict: nothing is done with it
DropNonObject ==
    /\ InNonObject
    /\ pc' = AfterDropped
    /\ callExc' = Append(callExc, NoExc)
    /\ UNCHANGED <<input, pos, out, effects, world>>

\* the events fx, each with (history) the number of the input line during
\* which it was issued
Issued(line, fx) == [k \in 1..Len(fx) |-> [line |-> line, ev |-> fx[k]]]

\* json.loads answers a dict: _handle_request(req), in the environment the
\* call finds
HandleObject ==
    /\ InObject
    /\ \E h \in {HandleRequest(input[pos].val, env, out, pos) : env \in world} :
         /\ out' = h.out
         /\ callExc' = Append(callExc, h.call)
         /\ effects' = effects \o Issued(pos, h.fx)
         /\ pc' = AfterHandled(h.escaped)
    /\ UNCHANGED <<input, pos, world>>

Next ==
    \/ ReadLine
    \/ Eof
    \/ DropBlank
    \/ DropUnparsable
    \/ DropNonObject
    \/ HandleObject

Spec == Init /\ [][Next]_vars

\* a run of main over lines that call the tools, on a machine whose
\* environment is known
ToolInit ==
    /\ input \in UNION {[1..n -> ToolLines] : n \in 0..MaxCalls}
    /\ pos = 0
    /\ pc = "read"
    /\ out = << >>
    /\ callExc = << >>
    /\ effects = << >>
    /\ world \in {{env} : env \in ToolEnvs}

ToolSpec == ToolInit /\ [][Next]_vars

-----------------------------------------------------------------------------
(* Properties *)

\* the lines main has finished with
Processed == IF pc = "handle" THEN pos - 1 ELSE pos

\* what was written to stdout while input line i was handled
OutOf(i) == SelectSeq(out, LAMBDA e : e.line = i)

IsMessage(l) == l.raw = "json" /\ IsDict(l.val)
HasMethod(l) == IsMessage(l) /\ "method" \in DOMAIN l.val.v
HasId(l) == "id" \in DOMAIN l.val.v
IdOf(l) == IF HasId(l) THEN l.val.v["id"] ELSE JNull
MethodIs(l, m) == HasMethod(l) /\ l.val.v["method"] = JStr(m)
ParamsOf(l) == IF "params" \in DOMAIN l.val.v THEN l.val.v["params"] ELSE JNull

KnownMethods ==
    {JStr("initialize"), JStr("initialized"), JStr("notifications/initialized"),
     JStr("tools/list"), JStr("resources/list"), JStr("prompts/list"), JStr("tools/call")}

\* the loop has not ended while lines remain
LoopGoesOn == pc = "done" => pos = Len(input)

\* C1: every line holding a message with a method and a non-null id gets
\* exactly one response line, with that id, before the next line is read.
C1_EveryRequestAnsweredOnce ==
    \A i \in 1..Processed :
        (HasMethod(input[i]) /\ IdOf(input[i]) # JNull) =>
            /\ Len(OutOf(i)) = 1
            /\ OutOf(i)[1].msg.id = IdOf(input[i])

\* C2: a message with a method and no id gets no output line, whichever
\* method it names.
C2_NotificationNeverAnswered ==
    \A i \in 1..Processed :
        (HasMethod(input[i]) /\ ~HasId(input[i])) => OutOf(i) = << >>

\* C3: responses are written in the order their requests were read: each
\* output line answers a request that has been read and carries its id, and
\* the requests answered by successive output lines were read in that order.
C3_ResponsesInRequestOrder ==
    \A k \in 1..Len(out) :
        /\ out[k].line \in 1..pos
        /\ HasMethod(input[out[k].line])
        /\ out[k].msg.id = IdOf(input[out[k].line])
        /\ k > 1 => out[k - 1].line <= out[k].line

C3_Witness ==
    /\ pc = "done"
    /\ Len(out) = 2
    /\ out[1].line = 1 /\ out[2].line = 2
    /\ out[1].msg.id # out[2].msg.id

\* what handling the message of line l alone, on an empty stdout, can write
AloneWrites(l, i) ==
    {HandleRequest(l.val, env, << >>, i).out : env \in Envs}

\* C4: a malformed line (blank, no JSON, JSON that is no object) produces no
\* output line, and the lines after it are read and handled as they would be
\* without it.
C4_MalformedLineDropped ==
    /\ \A i \in 1..Processed :
          IF IsMessage(input[i])
          THEN OutOf(i) \in AloneWrites(input[i], i)
          ELSE OutOf(i) = << >>
    /\ \A i \in 1..Len(input) :
          (~IsMessage(input[i]) /\ pc = "done") => pos = Len(input)

C4_Witness ==
    /\ pc = "done"
    /\ Len(input) = 2
    /\ ~IsMessage(input[1])
    /\ HasMethod(input[2])
    /\ Len(out) = 1 /\ out[1].line = 2

\* the number of steps main has left at most: two per line not yet taken,
\* one to finish the line in hand, one to end at the end of the input
StepsLeft ==
    IF pc = "done" THEN 0
    ELSE 2 * (Len(input) - pos) + (IF pc = "handle" THEN 2 ELSE 1)

\* C5: the loop ends only at the end of the input: when it has ended every
\* line has been taken; until then one of its steps can be taken; every step
\* takes at most the next line and brings the end nearer, so for every
\* finite input the loop ends after the last line.
C5_LoopEndsAtEof ==
    /\ [](pc = "done" => pos = Len(input))
    /\ [](pc # "done" =>
            AtLine \/ AtEof \/ InBlank \/ InUnparsable \/ InNonObject \/ InObject)
    /\ [](StepsLeft >= 0)
    /\ [][/\ StepsLeft' < StepsLeft
          /\ (pos' = pos \/ (pos' = pos + 1 /\ pos' <= Len(input)))]_vars

C5_Witness ==
    /\ pc = "done"
    /\ pos = 2
    /\ ~IsMessage(input[1])
    /\ callExc[2].raised

\* C6: a tools/call whose execution raises is answered with exactly one
\* error response with code -32000 and the exception's message, and the loop
\* goes on with the following lines.
C6_ToolExceptionAnswered ==
    /\ \A i \in 1..Processed :
          callExc[i].raised =>
              /\ MethodIs(input[i], "tools/call")
              /\ Len(OutOf(i)) = 1
              /\ OutOf(i)[1].msg = [kind |-> "error", id |-> IdOf(input[i]),
                                    code |-> -32000, message |-> callExc[i].msg]
    /\ LoopGoesOn

C6_Witness ==
    /\ pc = "done"
    /\ Len(input) = 2
    /\ callExc[1].raised
    /\ callExc[1].msg = "target window not found"
    /\ Len(OutOf(2)) = 1

\* the tools/call of line l has a bad params shape: no usable name,
\* arguments that are no object, or a required argument missing
BadParamsShape(l) ==
    /\ MethodIs(l, "tools/call")
    /\ IdOf(l) # JNull
    /\ LET p == ParamsOf(l)
           name == IF IsDict(p) THEN DictGet(p, "name") ELSE JNull
           args == IF IsDict(p) THEN DictGet(p, "arguments") ELSE JNull
       IN \/ ~IsStr(name)
          \/ name = JStr("")
          \/ args # JNull /\ ~IsDict(args)
          \/ name = JStr("click") /\ IsDict(args) /\ ~({"x", "y"} \subseteq DOMAIN args.v)
          \/ name = JStr("key") /\ IsDict(args) /\ "key" \notin DOMAIN args.v

\* C7: a tools/call with a bad params shape is answered with an error
\* response that echoes the id and carries a protocol error code, distinct
\* from the application code -32000 of tool-execution errors.
C7_BadParamsProtocolCode ==
    \A i \in 1..Processed :
        BadParamsShape(input[i]) =>
            /\ Len(OutOf(i)) = 1
            /\ OutOf(i)[1].msg.kind = "error"
            /\ OutOf(i)[1].msg.id = IdOf(input[i])
            /\ OutOf(i)[1].msg.code # -32000

UnknownMethod(l) == HasMethod(l) /\ l.val.v["method"] \notin KnownMethods

MethodNotFoundOnly(i) ==
    /\ Len(OutOf(i)) = 1
    /\ OutOf(i)[1].msg.kind = "error"
    /\ OutOf(i)[1].msg.code = -32601
    /\ OutOf(i)[1].msg.id = IdOf(input[i])

\* C8 as claimed: a message with a method the server does not know gets
\* exactly one method-not-found error (-32601) with its id when an id is
\* present, and nothing when it has no id.
C8_UnknownMethodIdPresent ==
    \A i \in 1..Processed :
        UnknownMethod(input[i]) =>
            IF HasId(input[i]) THEN MethodNotFoundOnly(i) ELSE OutOf(i) = << >>

\* C8 as amended: a message with a method the server does not know gets
\* exactly one method-not-found error (-32601) with its id when its id is
\* present and not null, and nothing when the id is absent or null.
C8_UnknownMethodIdNotNull ==
    \A i \in 1..Processed :
        UnknownMethod(input[i]) =>
            IF IdOf(input[i]) # JNull THEN MethodNotFoundOnly(i) ELSE OutOf(i) = << >>

C8_Witness ==
    /\ pc = "done"
    /\ Len(input) = 2
    /\ UnknownMethod(input[1]) /\ IdOf(input[1]) = JInt(1)
    /\ UnknownMethod(input[2]) /\ HasId(input[2]) /\ IdOf(input[2]) = JNull
    /\ Len(out) = 1 /\ out[1].msg.code = -32601

\* C9: every message with method initialize, whatever its params, yields a
\* result response.
C9_InitializeAlwaysSucceeds ==
    \A i \in 1..Processed :
        MethodIs(input[i], "initialize") =>
            /\ Len(OutOf(i)) = 1
            /\ OutOf(i)[1].msg.kind = "result"

\* the protocolVersion the client supplied in line l: null when there is none
SuppliedVersion(l) ==
    IF IsDict(ParamsOf(l)) /\ "protocolVersion" \in DOMAIN ParamsOf(l).v
    THEN ParamsOf(l).v["protocolVersion"]
    ELSE JNull

InitializeResults ==
    {k \in 1..Len(out) : MethodIs(input[out[k].line], "initialize") /\ out[k].msg.kind = "result"}

\* C10 as claimed: the protocolVersion of an initialize result is the
\* client-supplied params.protocolVersion string when one is present, and
\* "2024-11-05" otherwise, whatever came before.
C10_VersionEchoedWhenPresent ==
    \A k \in InitializeResults :
        out[k].msg.result.protocolVersion =
            IF IsStr(SuppliedVersion(input[out[k].line]))
            THEN SuppliedVersion(input[out[k].line])
            ELSE JStr("2024-11-05")

\* C10 as amended: the protocolVersion of an initialize result is the
\* client-supplied params.protocolVersion when it is present and truthy (for
\* a string: not empty), and "2024-11-05" otherwise (absent, null, the empty
\* string or another falsy value), whatever came before.
C10_VersionEchoedWhenNotEmpty ==
    \A k \in InitializeResults :
        out[k].msg.result.protocolVersion =
            IF SuppliedVersion(input[out[k].line]) \notin
                   {JNull, JStr(""), JInt(0), JBool(FALSE), JList(<< >>), EmptyDict}
            THEN SuppliedVersion(input[out[k].line])
            ELSE JStr("2024-11-05")

C10_Witness ==
    /\ Len(out) = 2
    /\ SuppliedVersion(input[1]) = JStr("")
    /\ out[1].msg.result.protocolVersion = JStr("2024-11-05")
    /\ SuppliedVersion(input[2]) = JStr("2025-03-26")
    /\ out[2].msg.result.protocolVersion = JStr("2025-03-26")

\* the output lines that answer a tools/list message
ListAnswers == {k \in 1..Len(out) : MethodIs(input[out[k].line], "tools/list")}

\* the names of the tools of a tools/list result, in its order
ToolNamesOf(result) == [j \in 1..Len(result.tools) |-> result.tools[j].name]

\* C15: tools/list returns the same catalog of exactly the four tools
\* capture, click, key, wait after any sequence of prior messages: every
\* tools/list is answered, with a result holding these four tools, and all
\* tools/list results of a run are equal.
C15_CatalogStable ==
    /\ \A i \in 1..Processed :
          MethodIs(input[i], "tools/list") => Len(OutOf(i)) = 1
    /\ \A k \in ListAnswers :
          /\ out[k].msg.kind = "result"
          /\ ToolNamesOf(out[k].msg.result) = <<"capture", "click", "key", "wait">>
    /\ \A k, j \in ListAnswers : out[k].msg.result = out[j].msg.result

C15_Witness ==
    /\ pc = "done"
    /\ Len(input) = 2
    /\ callExc[1].raised
    /\ MethodIs(input[2], "tools/list")
    /\ ListAnswers = {2}
    /\ Len(out[2].msg.result.tools) = 4

-----------------------------------------------------------------------------
(* Properties of the tools, stated over runs of ToolSpec *)

\* the one environment of the run
TheEnv == CHOOSE env \in world : TRUE

\* the events issued while input line i was handled
EffectsOf(i) ==
    LET s == SelectSeq(effects, LAMBDA e : e.line = i)
    IN [k \in 1..Len(s) |-> s[k].ev]

\* params.name and params.arguments of a tools/call line
NameOf(l) == IF IsDict(ParamsOf(l)) THEN DictGet(ParamsOf(l), "name") ELSE JNull
ArgumentsOf(l) == IF IsDict(ParamsOf(l)) THEN DictGet(ParamsOf(l), "arguments") ELSE JNull

\* line l calls the tool of the given name with an object of arguments
CallsTool(l, name) ==
    /\ MethodIs(l, "tools/call")
    /\ NameOf(l) = JStr(name)
    /\ IsDict(ArgumentsOf(l))

\* the value of argument k of the call of line l, null when it is absent
Arg(l, k) == DictGet(ArgumentsOf(l), k)

\* line i got exactly one response, an error with the given message
FailedWith(i, message) ==
    /\ Len(OutOf(i)) = 1
    /\ OutOf(i)[1].msg.kind = "error"
    /\ OutOf(i)[1].msg.message = message

\* line i got exactly one response, a result
Succeeded(i) ==
    /\ Len(OutOf(i)) = 1
    /\ OutOf(i)[1].msg.kind = "result"

ResultOf(i) == OutOf(i)[1].msg.result

\* line l is a tools/call naming a tool the server does not have
CallsUnknownTool(l) ==
    /\ MethodIs(l, "tools/call")
    /\ IsStr(NameOf(l))
    /\ NameOf(l).v \notin {"", "capture", "click", "key", "wait"}

\* C11 as claimed: a tools/call whose name is a non-empty string other than
\* capture, click, key, wait is answered with the error "unknown tool:
\* <name>", whatever its arguments are.
C11_UnknownToolAnyArguments ==
    \A i \in 1..Processed :
        CallsUnknownTool(input[i]) =>
            FailedWith(i, "unknown tool: " \o NameOf(input[i]).v)

\* C11 as amended: such a call is answered with the error "unknown tool:
\* <name>" when its arguments are absent, null or an object, and with the
\* error "arguments must be an object" when they are any other value.
C11_UnknownToolObjectArguments ==
    \A i \in 1..Processed :
        CallsUnknownTool(input[i]) =>
            IF ArgumentsOf(input[i]) = JNull \/ IsDict(ArgumentsOf(input[i]))
            THEN FailedWith(i, "unknown tool: " \o NameOf(input[i]).v)
            ELSE FailedWith(i, "arguments must be an object")

C11_Witness ==
    /\ Processed = 1
    /\ CallsUnknownTool(input[1])
    /\ ArgumentsOf(input[1]) = JNull
    /\ FailedWith(1, "unknown tool: bogus")

\* the ms a wait call asks for: its ms argument, 250 when it has none
RequestedMs(l) == IF Arg(l, "ms") = JNull THEN 250 ELSE Arg(l, "ms").n

\* line l is a wait call whose ms is absent or an integer of the schema's range
WaitsInRange(l) ==
    /\ CallsTool(l, "wait")
    /\ \/ "ms" \notin DOMAIN ArgumentsOf(l).v
       \/ /\ Arg(l, "ms").t = "num" /\ Arg(l, "ms").d = 1
          /\ Arg(l, "ms").n \in 0..600000

\* C12: a wait call with an integer ms in [0, 600000] sleeps ms milliseconds
\* and returns a result that is no error, with text "wait ok: <ms>ms" and
\* metadata ms equal to the requested ms; without ms the value used is 250.
C12_WaitSleepsRequestedMs ==
    \A i \in 1..Processed :
        WaitsInRange(input[i]) =>
            /\ Succeeded(i)
            /\ EffectsOf(i) = <<[op |-> "sleep", ms |-> RequestedMs(input[i])]>>
            /\ ResultOf(i) = [content |-> <<[type |-> "text",
                                           text |-> "wait ok: "
                                                    \o ToString(RequestedMs(input[i])) \o "ms"]>>,
                              isError |-> FALSE,
                              metadata |-> [ms |-> RequestedMs(input[i])]]

\* line i is a click call that succeeded at the normalized point (x, y)
ClickedAt(i, x, y) ==
    /\ CallsTool(input[i], "click")
    /\ Arg(input[i], "x") = JInt(x)
    /\ Arg(input[i], "y") = JInt(y)
    /\ Succeeded(i)

\* the rect a click resolved and the screen point it computed, as its
\* result reports them
ClickRectOf(i) == ResultOf(i).metadata.rect
ClickPointOf(i) == ResultOf(i).metadata.screen

\* C13 as claimed: for every resolved rect with right >= left and bottom >=
\* top, a click at x=0,y=0 computes the screen point (left, top) and a click
\* at x=1,y=1 computes (right, bottom).
C13_CornersOfEveryRect ==
    \A i \in 1..Processed :
        /\ (ClickedAt(i, 0, 0)
              /\ ClickRectOf(i)[3] >= ClickRectOf(i)[1]
              /\ ClickRectOf(i)[4] >= ClickRectOf(i)[2]) =>
              ClickPointOf(i) = <<ClickRectOf(i)[1], ClickRectOf(i)[2]>>
        /\ (ClickedAt(i, 1, 1)
              /\ ClickRectOf(i)[3] >= ClickRectOf(i)[1]
              /\ ClickRectOf(i)[4] >= ClickRectOf(i)[2]) =>
              ClickPointOf(i) = <<ClickRectOf(i)[3], ClickRectOf(i)[4]>>

\* C13 as amended: a click at x=0,y=0 computes (left, top) for every
\* resolved rect; a click at x=1,y=1 computes (right, bottom) when right >
\* left and bottom > top, and one pixel past left (top) on an axis where the
\* rect is empty, its width (height) being counted as 1.
C13_CornersOfNonEmptyRect ==
    \A i \in 1..Processed :
        /\ ClickedAt(i, 0, 0) =>
              ClickPointOf(i) = <<ClickRectOf(i)[1], ClickRectOf(i)[2]>>
        /\ ClickedAt(i, 1, 1) =>
              ClickPointOf(i) =
                  <<IF ClickRectOf(i)[3] > ClickRectOf(i)[1]
                    THEN ClickRectOf(i)[3] ELSE ClickRectOf(i)[1] + 1,
                    IF ClickRectOf(i)[4] > ClickRectOf(i)[2]
                    THEN ClickRectOf(i)[4] ELSE ClickRectOf(i)[2] + 1>>

C13_Witness ==
    /\ Processed = 1
    /\ ClickedAt(1, 1, 1)
    /\ ClickRectOf(1) = <<108, 131, 892, 692>>
    /\ ClickPointOf(1) = <<892, 692>>

\* v is a number outside [0, 1]
OutsideUnit(v) == v.t = "num" /\ (v.n < 0 \/ v.n > v.d)

\* C14: a click call whose x or y lies outside [0, 1] is rejected before any
\* coordinate mapping: it is answered with an error response, and no cursor
\* move, click event or window message is issued.
C14_OutOfRangePointRejected ==
    \A i \in 1..Processed :
        (/\ CallsTool(input[i], "click")
         /\ OutsideUnit(Arg(input[i], "x")) \/ OutsideUnit(Arg(input[i], "y"))) =>
            /\ Len(OutOf(i)) = 1
            /\ OutOf(i)[1].msg.kind = "error"
            /\ EffectsOf(i) = << >>

\* the integer argument k of the call of line l, dflt when it is absent
IntArg(l, k, dflt) == IF Arg(l, k) = JNull THEN dflt ELSE Arg(l, k).n

\* the string argument k of the call of line l in lower case, dflt when absent
NameArg(l, k, dflt) == IF Arg(l, k) = JNull THEN dflt ELSE LowerStr(Arg(l, k).v)

\* the down and up messages of a mouse button
ButtonPair(button) ==
    CASE button = "right" -> <<"WM_RBUTTONDOWN", "WM_RBUTTONUP">>
      [] button = "middle" -> <<"WM_MBUTTONDOWN", "WM_MBUTTONUP">>
      [] button = "left" -> <<"WM_LBUTTONDOWN", "WM_LBUTTONUP">>

\* events a and b are a button-down message and the matching button-up
\* message, posted to the same window
IsClickPair(a, b, button) ==
    /\ a.op = "post" /\ b.op = "post"
    /\ a.hwnd = b.hwnd
    /\ <<a.msg, b.msg>> = ButtonPair(button)

\* the events ev are n clicks, each of `unit` events recognised by IsClick
\* (given the position of its first event), after `lead` leading events,
\* with a sleep of d ms between two consecutive clicks when d > 0 and no
\* sleep at all when d = 0
ClicksWithPauses(ev, n, d, lead, unit, IsClick(_)) ==
    LET stride == unit + (IF d > 0 THEN 1 ELSE 0)
    IN /\ Len(ev) = lead + n * unit + (IF d > 0 THEN n - 1 ELSE 0)
       /\ \A k \in 1..n :
             /\ IsClick(lead + (k - 1) * stride + 1)
             /\ (d > 0 /\ k < n) =>
                   ev[lead + k * stride] = [op |-> "sleep", ms |-> d]

\* C16: a successful click call with clicks=n and interval_ms=d issues
\* exactly n clicks in both modes (in postmessage mode n pairs of a
\* button-down and the matching button-up message to the same window), with
\* a sleep of d ms between two consecutive clicks and none after the last:
\* n-1 sleeps of d ms, and no sleep at all when d = 0.
C16_ClicksAndPauses ==
    \A i \in 1..Processed :
        (CallsTool(input[i], "click") /\ Succeeded(i)) =>
            LET ev == EffectsOf(i)
                n == IntArg(input[i], "clicks", 1)
                d == IntArg(input[i], "interval_ms", 60)
                button == NameArg(input[i], "button", "left")
            IN IF NameArg(input[i], "mode", "postmessage") = "postmessage"
               THEN /\ ClicksWithPauses(ev, n, d, 0, 2,
                                        LAMBDA j : IsClickPair(ev[j], ev[j + 1], button))
                    /\ \A j \in 1..Len(ev) : ev[j].op = "post" => ev[j].hwnd = ev[1].hwnd
               ELSE /\ ClicksWithPauses(ev, n, d, 1, 1,
                                        LAMBDA j : ev[j] = [op |-> "click", button |-> button])
                    /\ ev[1].op = "moveTo"

\* the window messages posted while input line i was handled
PostsOf(i) == SelectSeq(EffectsOf(i), LAMBDA e : e.op = "post")

\* the key messages one repetition of an action is made of
KeyMessages(action) ==
    CASE action = "press" -> <<"WM_KEYDOWN", "WM_KEYUP">>
      [] action = "down" -> <<"WM_KEYDOWN">>
      [] action = "up" -> <<"WM_KEYUP">>
      [] OTHER -> << >>

\* the messages of posts are n repetitions of unit
IsRepeated(posts, n, unit) ==
    /\ Len(posts) = n * Len(unit)
    /\ \A k \in 1..Len(posts) : posts[k].msg = unit[((k - 1) % Len(unit)) + 1]

\* line i is a successful key call in postmessage mode
KeyPosted(i) ==
    /\ CallsTool(input[i], "key")
    /\ NameArg(input[i], "mode", "postmessage") = "postmessage"
    /\ Succeeded(i)

\* C17: a successful key call in postmessage mode with repeat=n posts, to
\* the one window resolved at the start of the call, n repetitions of
\* [key-down, key-up] for action press, of [key-down] for down and of
\* [key-up] for up, all with the same virtual-key code; and a successful key
\* call never posts an empty sequence.
C17_KeyPostsPerAction ==
    \A i \in 1..Processed :
        KeyPosted(i) =>
            LET posts == PostsOf(i)
                action == NameArg(input[i], "action", "press")
            IN /\ posts # << >>
               /\ action \in {"press", "down", "up"} =>
                     IsRepeated(posts, IntArg(input[i], "repeat", 1), KeyMessages(action))
               /\ \A k \in 1..Len(posts) :
                     /\ posts[k].hwnd = posts[1].hwnd
                     /\ posts[k].wparam = posts[1].wparam
               /\ \E j \in 1..Len(TheEnv.wins) : TheEnv.wins[j].hwnd = posts[1].hwnd

\* the class filter of the call of line l, null when none is set: its
\* hwnd_class argument or else the configured default
ClassFilter(l) ==
    IF Arg(l, "hwnd_class") \notin {JNull, JStr("")} THEN Arg(l, "hwnd_class")
    ELSE TheEnv.cfgClass

\* window w passes the filters of the call of line l
Passes(w, l) ==
    /\ w.visible
    /\ ClassFilter(l) # JNull => w.cls = ClassFilter(l).v
    /\ Arg(l, "title_contains") \notin {JNull, JStr("")} =>
          StrContains(LowerStr(Arg(l, "title_contains").v), LowerStr(w.title))

\* the windows that pass the filters of line l, in enumeration order
Candidates(l) == SelectSeq(TheEnv.wins, LAMBDA w : Passes(w, l))

\* the area of the bounding rectangle of window w
BoundingArea(w) == (w.rect[3] - w.rect[1]) * (w.rect[4] - w.rect[2])

\* w is, among the windows ws, the first of the largest
IsFirstLargest(w, ws) ==
    \E j \in 1..Len(ws) :
        /\ ws[j] = w
        /\ \A k \in 1..Len(ws) : BoundingArea(ws[k]) <= BoundingArea(w)
        /\ \A k \in 1..(j - 1) : BoundingArea(ws[k]) < BoundingArea(w)

\* line l is a key call that reaches the resolution of its window and, if a
\* window is found, posts to it
KeyResolves(l) ==
    /\ CallsTool(l, "key")
    /\ NameArg(l, "mode", "postmessage") = "postmessage"
    /\ Arg(l, "key") \in {JStr("ESC"), JStr("a")}
    /\ NameArg(l, "action", "press") \in {"press", "down", "up"}
    /\ IntArg(l, "repeat", 1) >= 1
    /\ TheEnv.win32

\* line l is a capture call of a window
CaptureResolves(l) ==
    /\ CallsTool(l, "capture")
    /\ NameArg(l, "target", "window") = "window"
    /\ TheEnv.win32

\* line l is a click call on a window
ClickResolves(l) ==
    /\ CallsTool(l, "click")
    /\ NameArg(l, "target", "window") = "window"
    /\ TheEnv.win32

\* the rect of window w that a capture reports: the outer rect, or the
\* client area in screen coordinates
ReportedRect(w, l) ==
    IF Arg(l, "include_window_frame") = JBool(TRUE) THEN w.rect
    ELSE <<w.origin[1], w.origin[2], w.origin[1] + w.csize[1], w.origin[2] + w.csize[2]>>

\* C18: window resolution returns, among the visible windows that pass the
\* class filter (exact equality) and the title filter (case-insensitive
\* substring), the first of those with the largest bounding-rectangle area:
\* a key call posts to that window and a capture reports its rect.  It
\* returns not-found exactly when no window passes the filters, and the key,
\* capture or click call then ends in the error response "target window not
\* found", with no event issued and the loop going on.  (A key call whose
\* window is found succeeds unless a PostMessage to that window raises.)
C18_LargestCandidateResolved ==
    /\ \A i \in 1..Processed :
          /\ KeyResolves(input[i]) =>
                IF Candidates(input[i]) = << >>
                THEN FailedWith(i, "target window not found") /\ EffectsOf(i) = << >>
                ELSE /\ Succeeded(i) \/ (TheEnv.failAt > 0 /\ ~FailedWith(i, "target window not found"))
                     /\ PostsOf(i) # << >>
                     /\ \A k \in 1..Len(PostsOf(i)) :
                           \E w \in {TheEnv.wins[j] : j \in 1..Len(TheEnv.wins)} :
                               /\ w.hwnd = PostsOf(i)[k].hwnd
                               /\ IsFirstLargest(w, Candidates(input[i]))
          /\ CaptureResolves(input[i]) =>
                IF Candidates(input[i]) = << >>
                THEN FailedWith(i, "target window not found") /\ EffectsOf(i) = << >>
                ELSE Succeeded(i) =>
                     \E w \in {TheEnv.wins[j] : j \in 1..Len(TheEnv.wins)} :
                         /\ ResultOf(i).metadata.rect = ReportedRect(w, input[i])
                         /\ IsFirstLargest(w, Candidates(input[i]))
          /\ (ClickResolves(input[i]) /\ Candidates(input[i]) = << >>) =>
                FailedWith(i, "target window not found") /\ EffectsOf(i) = << >>
    /\ LoopGoesOn

C18_Witness ==
    /\ Processed = 1
    /\ KeyResolves(input[1])
    /\ Len(TheEnv.wins) = 4
    /\ Len(Candidates(input[1])) = 2
    /\ Succeeded(1)
    /\ PostsOf(1)[1].hwnd = 101

\* the key name has no virtual-key code: no alias, not F1-F24, no single
\* alphanumeric character, and rejected by the platform's key scan
Unmapped(name) ==
    /\ LowerStr(name) \notin DOMAIN SpecialKeys
    /\ FKeyNumber(LowerStr(name)) \notin 1..24
    /\ ~SingleAlnum(LowerStr(name))
    /\ VkKeyScan(LowerStr(name)) = "-1"

\* line l is a key call in postmessage mode whose key name has no
\* virtual-key code
KeyUnmapped(l) ==
    /\ CallsTool(l, "key")
    /\ NameArg(l, "mode", "postmessage") = "postmessage"
    /\ IsStr(Arg(l, "key"))
    /\ Unmapped(Arg(l, "key").v)

ClickPosted(i) ==
    /\ ClickResolves(input[i])
    /\ NameArg(input[i], "mode", "postmessage") = "postmessage"
    /\ Succeeded(i)
    /\ PostsOf(i) # << >>

\* C20: within one click call with target=window in postmessage mode, the
\* window whose rectangle maps (x, y) to the screen point is the window that
\* receives the posted button messages, also when the set of visible
\* windows changes while the call runs.
C20_MappedWindowReceivesClick ==
    \A i \in 1..Processed :
        ClickPosted(i) =>
            \E w \in {TheEnv.wins[j] : j \in 1..Len(TheEnv.wins)} :
                /\ ReportedRect(w, input[i]) = ClickRectOf(i)
                /\ \A k \in 1..Len(PostsOf(i)) : PostsOf(i)[k].hwnd = w.hwnd

\* the events that act on the machine: posted window messages, cursor
\* moves, click and key events
Injections(i) ==
    SelectSeq(EffectsOf(i),
              LAMBDA e : e.op \in {"post", "moveTo", "click", "keyDown", "keyUp", "press"})

\* C21: a tools/call that is answered with an error response has had no
\* outward effect: during that call no window message was posted and no
\* cursor move, click or key event was injected, whichever the tool, the
\* mode and the cause of the failure.
C21_ErrorMeansNoEffect ==
    \A i \in 1..Processed :
        (/\ MethodIs(input[i], "tools/call")
         /\ Len(OutOf(i)) = 1
         /\ OutOf(i)[1].msg.kind = "error") =>
            Injections(i) = << >>

====
